---- MODULE Spec2Model ----
(***************************************************************************)
(* Task orchestration of subextractor-bot: TaskQueue (single worker),      *)
(* TaskProcessor.process_task and CommandHandler.handle_task_status_change *)
(* as cooperating asyncio coroutines.                                      *)
(*                                                                         *)
(* Coroutines are the queue worker "w" and the command coroutines that     *)
(* call cancel_task / cancel_all_tasks.  A coroutine's pc is either a      *)
(* suspension point (an await that yields to the event loop) or a point    *)
(* inside synchronous code; while some coroutine is inside synchronous     *)
(* code no other coroutine and no command may take a step.  One action is  *)
(* the code a coroutine runs from one such point to the next; the pieces   *)
(* of code it runs through are operators from a state record to a state    *)
(* record.                                                                 *)
(***************************************************************************)
EXTENDS Integers, Sequences, FiniteSets, TLC

MaxTasks == 2
MaxHandlers == 2
MaxJobs == 2
MaxFiles == 2
MaxSent == 2
MaxLen == 3

\* command_handler.py
MAX_RETRIES == 3
BASE_RETRY_DELAY == 2

Objs == 1 .. MaxTasks
Ids == 1 .. MaxTasks
Callers == {"c1"}
Coros == {"w"} \cup Callers
LockIds == 1 .. (2 * Cardinality(Coros))
HandlerIds == 1 .. MaxHandlers
JobIds == 1 .. MaxJobs
JTasks == 1 .. (2 * MaxJobs)
Files == 1 .. MaxFiles

\* src/src/models/task_status.py: TaskStatus ("NONE": the object is not created yet)
TaskStatus == {"WAITING", "DOWNLOADING", "EXTRACTING", "UPLOADING",
               "COMPLETED", "ERROR", "CANCELED"}
Terminal == {"COMPLETED", "ERROR", "CANCELED"}
Stages == {"DOWNLOADING", "EXTRACTING", "UPLOADING"}

\* awaits that yield to the event loop
SuspPcs == {"idle", "w_start", "w_busy", "w_poll", "h_acq", "h_upload",
            "h_senderr", "h_exc_send", "p_dl", "p_ex"}

VARIABLES
  status,        \* SubtitleTask.status per task object
  src,           \* "url" (task.url set) or "file" (task.file_path set)
  tid,           \* SubtitleTask.task_id per task object (0: not created)
  completed_at,  \* SubtitleTask.completed_at is set
  gid,           \* SubtitleTask.gid is set (a download handle was obtained)
  queue,         \* TaskQueue.queue
  tasks,         \* TaskQueue.tasks: task_id -> task object (0: no entry)
  active_task,   \* TaskQueue.active_task (0: None)
  cancelReq,     \* worker_task.cancel() was called and CancelledError is not yet delivered
  ptActive,      \* keys of TaskProcessor.active_tasks
  locks,         \* CommandHandler._task_locks: task_id -> lock object (0: no entry)
  locked,        \* asyncio.Lock.locked() per lock object
  co,            \* per coroutine: program counter and locals
  output_files,  \* SubtitleTask.output_files is not empty
  error_message, \* SubtitleTask.error_message ("-": None)
  hist,          \* observations: objects the download (dl) and extraction (ex)
                 \* collaborators were invoked for, objects whose download handle
                 \* reported is_complete (dlc), objects the worker started,
                 \* how an object was cancelled ("queued", "active", "drain"),
                 \* and (fs) the staging directory, the download engine and the
                 \* error messages sent
  task_handlers, \* TaskQueue.task_handlers: status -> list of handlers
  nf,            \* the frame of one _notify_handlers call
  jobs,          \* JobManager.jobs: job id -> asyncio.Task (0: no entry)
  callbacks,     \* JobManager.callbacks: job id -> callback ("-": no entry)
  intervals,     \* JobManager.intervals: job id -> interval (0: no entry)
  jt,            \* the asyncio.Tasks created by start_job
  up,            \* the frame of one _upload_subtitles call and what it did
  pg             \* one task's status and progress fields under process_task

vars == <<status, src, tid, completed_at, gid, queue, tasks, active_task, cancelReq,
          ptActive, locks, locked, co, output_files, error_message, hist,
          task_handlers, nf, jobs, callbacks, intervals, jt, up, pg>>

dispatchVars == <<task_handlers, nf>>
jobVars == <<jobs, callbacks, intervals, jt>>
uploadVars == <<up>>
progressVars == <<pg>>

Range(f) == {f[x] : x \in DOMAIN f}

IdleCo == [pc |-> "idle", obj |-> 0, lk |-> 0, ret |-> "-", exc |-> FALSE,
           op |-> "-", arg |-> 0, cnt |-> 0, res |-> -1, snap |-> {}]

\* no _notify_handlers call is in progress
IdleFrame == [pc |-> "idle", st |-> "-", cur |-> "-", snap |-> <<>>, idx |-> 0,
              log |-> <<>>, raised |-> {}]

\* no asyncio.Task object (cb, iv: what start_job was called with; again: a
\* start_job with another callback found the task running)
NoJob == [pc |-> "none", job |-> 0, cancel |-> FALSE, cb |-> "-", iv |-> 0, again |-> FALSE]

\* JobManager.__init__
InitJobManager ==
  /\ jobs = [j \in JobIds |-> 0]
  /\ callbacks = [j \in JobIds |-> "-"]
  /\ intervals = [j \in JobIds |-> 0]
  /\ jt = [t \in JTasks |-> NoJob]

\* no _upload_subtitles call is in progress (n: len(task.output_files); exists:
\* the output files on disk; idx: the file the loop is at; attempts, fails: the
\* send_document calls per file and how many of them raised a transient error;
\* waits: the asyncio.sleep delays per file; st: task.status as the COMPLETED
\* branch of handle_task_status_change leaves it)
IdleUpload ==
  [pc |-> "idle", n |-> 0, exists |-> {}, idx |-> 0, retries |-> 0,
   attempts |-> [f \in Files |-> 0], fails |-> [f \in Files |-> 0],
   waits |-> [f \in Files |-> <<>>], uploaded |-> {}, result |-> "-", st |-> "-"]

\* the staging directory, the download engine and the chat as the program has
\* left them: tasks whose video file (task.file_path) is on disk, tasks with a
\* file of task.output_files on disk, tasks with a track file on disk that an
\* aborted mkvextract left and no list names, the engine's handle per task
\* ("-": none, "active", "complete", "removed"), the send_error_message
\* calls per task that reached the chat API, the _upload_subtitles calls per
\* task and the _cleanup_task_files calls per task.  They are followed only in
\* the behaviours that start with `on` (SpecStaging).  So are the lock
\* observations: the coroutines whose invocation acquired its lock and has not
\* released it itself (acq), whether an invocation ended with the lock it had
\* acquired still locked (leaked), whether an invocation released a lock that
\* another one had acquired (stolen) or popped it from the map (dropped), and
\* whether an invocation acquired a lock for a task while another invocation for
\* the same task_id was suspended between its acquire and its release (both).
NoFiles ==
  [on |-> FALSE, video |-> {}, subs |-> {}, partial |-> {},
   engine |-> [o \in Objs |-> "-"], sent |-> [o \in Objs |-> 0],
   uploads |-> [o \in Objs |-> 0], cleaned |-> [o \in Objs |-> 0],
   acq |-> {}, leaked |-> FALSE, stolen |-> FALSE, dropped |-> FALSE,
   both |-> FALSE]

NoHist ==
  [dl |-> {}, dlc |-> {}, ex |-> {}, started |-> {}, final |-> {}, empty |-> {},
   cancel |-> [o \in Objs |-> "-"], fs |-> NoFiles]

\* a SubtitleTask as the dataclass creates it (no process_task call yet)
NewTask ==
  [pc |-> "idle", url |-> FALSE, status |-> "WAITING", progress |-> 0, speed |-> 0,
   downloaded |-> 0, total_size |-> 0]

\* TaskQueue.__init__, TaskProcessor.__init__ and the fields of CommandHandler
InitQueue ==
  /\ up = IdleUpload
  /\ pg = NewTask
  /\ status = [o \in Objs |-> "NONE"]
  /\ src = [o \in Objs |-> "-"]
  /\ tid = [o \in Objs |-> 0]
  /\ completed_at = [o \in Objs |-> FALSE]
  /\ gid = [o \in Objs |-> FALSE]
  /\ queue = <<>>
  /\ tasks = [i \in Ids |-> 0]
  /\ active_task = 0
  /\ cancelReq = FALSE
  /\ ptActive = {}
  /\ locks = [i \in Ids |-> 0]
  /\ locked = [l \in LockIds |-> FALSE]
  /\ co = [c \in Coros |-> IdleCo]
  /\ output_files = [o \in Objs |-> FALSE]
  /\ error_message = [o \in Objs |-> "-"]

InitTasks == InitQueue /\ hist = NoHist

\* CommandHandler.__init__ registers handle_task_status_change (handler 1) for
\* every status
Init ==
  /\ InitTasks
  /\ task_handlers = [st \in TaskStatus |-> <<1>>]
  /\ nf = IdleFrame
  /\ InitJobManager

\* the same, with the staging directory followed
InitStaging ==
  /\ InitQueue
  /\ hist = [NoHist EXCEPT !.fs.on = TRUE]
  /\ task_handlers = [st \in TaskStatus |-> <<1>>]
  /\ nf = IdleFrame
  /\ InitJobManager

\* no coroutine is inside synchronous code: the event loop may pick any ready one
NoneRunning == \A c \in Coros : co[c].pc \in SuspPcs

\* the await the coroutine is suspended at returns normally
Resumes(c) == NoneRunning /\ ~(c = "w" /\ cancelReq)

\* the await the worker is suspended at raises CancelledError
Cancelled(c) == NoneRunning /\ c = "w" /\ cancelReq

\* the mutable program state as one record, and the step that installs a record
S == [status |-> status, completed_at |-> completed_at, gid |-> gid, queue |-> queue,
      tasks |-> tasks, active_task |-> active_task, cancelReq |-> cancelReq,
      ptActive |-> ptActive, locks |-> locks, locked |-> locked, co |-> co,
      output_files |-> output_files, error_message |-> error_message,
      hist |-> hist]

Becomes(t) ==
  /\ status' = t.status
  /\ completed_at' = t.completed_at
  /\ gid' = t.gid
  /\ queue' = t.queue
  /\ tasks' = t.tasks
  /\ active_task' = t.active_task
  /\ cancelReq' = t.cancelReq
  /\ ptActive' = t.ptActive
  /\ locks' = t.locks
  /\ locked' = t.locked
  /\ co' = t.co
  /\ output_files' = t.output_files
  /\ error_message' = t.error_message
  /\ hist' = t.hist
  /\ UNCHANGED <<dispatchVars, jobVars, uploadVars, progressVars>>

(***************************************************************************)
(* SubtitleTask                                                            *)
(***************************************************************************)
\* fault: a cancel() that leaves the task as it is
task_cancel_keeps(s, o) == s

\* SubtitleTask.cancel
task_cancel(s, o) == [s EXCEPT !.status[o] = "CANCELED", !.completed_at[o] = TRUE]

\* exception texts and the messages made of them
NoSubtitlesFound == "No subtitles found in video file"
OtherError == "other error"
HandlerError == "error in handler"

\* process_task `except Exception`: the user message for the exception text
user_msg(e) ==
  IF e = NoSubtitlesFound THEN "No subtitles were found in this video file."
  ELSE "Error processing video"

\* SubtitleTask.fail
task_fail(s, o, msg) ==
  [s EXCEPT !.status[o] = "ERROR", !.error_message[o] = msg, !.completed_at[o] = TRUE]

\* SubtitleTask.complete(TaskStatus.COMPLETED)
task_complete(s, o) == [s EXCEPT !.status[o] = "COMPLETED", !.completed_at[o] = TRUE]

(***************************************************************************)
(* Files, download engine and chat                                         *)
(***************************************************************************)
staged(s, f) == IF s.hist.fs.on THEN [s EXCEPT !.hist.fs = f] ELSE s

\* _download_telegram_file: the video of a local-file task is in the staging
\* directory before the task is queued
download_telegram_file(s, o, kind) ==
  IF kind = "file" THEN staged(s, [s.hist.fs EXCEPT !.video = @ \cup {o}]) ELSE s

\* start_download returned a gid: the engine transfers into the staging directory
start_download(s, o) == staged(s, [s.hist.fs EXCEPT !.engine[o] = "active"])

\* download.is_complete: `task.file_path = os.path.join(download_dir, download.name)`
download_complete(s, o) ==
  staged(s, [s.hist.fs EXCEPT !.engine[o] = "complete", !.video = @ \cup {o}])

\* a track file written and appended to task.output_files
track_written(s, o) == staged(s, [s.hist.fs EXCEPT !.subs = @ \cup {o}])

\* run_command's `except asyncio.CancelledError`: mkvextract is terminated; part
\* tells whether it had begun to write a track file
extraction_aborted(s, o, part) ==
  IF part THEN staged(s, [s.hist.fs EXCEPT !.partial = @ \cup {o}]) ELSE s

\* _handle_local_file `finally`: `if task.gid and os.path.exists(task.file_path)`
handle_local_file_finally(s, o) ==
  IF s.gid[o] THEN staged(s, [s.hist.fs EXCEPT !.video = @ \ {o}]) ELSE s

\* TaskProcessor._cleanup_task: engine cancel (remove with files) if the task
\* has a gid, remove task.file_path, remove the files of task.output_files
cleanup_task(s, o) ==
  staged(s, [s.hist.fs EXCEPT !.engine[o] = IF s.gid[o] THEN "removed" ELSE @,
                              !.video = @ \ {o}, !.subs = @ \ {o}])

\* CommandHandler._cleanup_task_files: the files of task.output_files and
\* task.file_path
cleanup_task_files(s, o) ==
  staged(s, [s.hist.fs EXCEPT !.subs = @ \ {o}, !.video = @ \ {o},
                              !.cleaned[o] = IF @ < MaxSent THEN @ + 1 ELSE @])

\* COMPLETED branch: `await self._upload_subtitles(task, context)` is called
upload_called(s, o) ==
  staged(s, [s.hist.fs EXCEPT !.uploads[o] = IF @ < MaxSent THEN @ + 1 ELSE @])

\* MessageHandler.send_error_message with a context: bot.send_message is called
send_error_message(s, o) ==
  staged(s, [s.hist.fs EXCEPT !.sent[o] = IF @ < MaxSent THEN @ + 1 ELSE @])

(***************************************************************************)
(* TaskQueue: synchronous helpers                                          *)
(***************************************************************************)
\* TaskQueue.get_task
get_task(s, id) == s.tasks[id]

\* TaskQueue.get_all_tasks
get_all_tasks == {tasks[i] : i \in Ids} \ {0}

\* deque.remove(x): drops the first occurrence of x
RECURSIVE SeqRemove(_, _)
SeqRemove(q, x) ==
  IF q = <<>> THEN <<>>
  ELSE IF Head(q) = x THEN Tail(q)
  ELSE <<Head(q)>> \o SeqRemove(Tail(q), x)

\* fault: a remove_task that forgets the FIFO
remove_task_map_only(s, id) == [s EXCEPT !.tasks[id] = 0]

\* TaskQueue.remove_task
remove_task(s, id) ==
  IF s.tasks[id] = 0 THEN s
  ELSE [s EXCEPT !.tasks[id] = 0, !.queue = SeqRemove(s.queue, s.tasks[id])]

\* fault: the worker takes the newest entry
pop_right(q) == q[Len(q)]

\* deque.popleft as used by _process_queue and cancel_all_tasks: the task taken
popleft(q) == Head(q)

\* TaskQueue._ensure_worker
ensure_worker(s) ==
  IF s.co["w"].pc = "idle" THEN [s EXCEPT !.co["w"].pc = "w_start"] ELSE s

\* TaskQueue.add_task
add_task(s, o, id) ==
  ensure_worker([s EXCEPT !.tasks[id] = o, !.queue = Append(s.queue, o)])

(***************************************************************************)
(* TaskQueue._notify_handlers into CommandHandler.handle_task_status_change *)
(* (the handler registered for every status), up to its first await        *)
(***************************************************************************)
InUse(s, l) == l \in Range(s.locks) \/ \E c \in Coros : s.co[c].lk = l
FreshLock(s) ==
  CHOOSE l \in LockIds : ~InUse(s, l) /\ \A m \in LockIds : m < l => InUse(s, m)

\* `if task.task_id not in self._task_locks:` creates the lock; the coroutine
\* then waits in wait_for(lock.acquire(), 0.1)
notify_handlers(s, c, o, ret) ==
  LET i == tid[o]
      l == IF s.locks[i] = 0 THEN FreshLock(s) ELSE s.locks[i]
  IN [s EXCEPT !.locks[i] = l,
               !.locked[l] = IF s.locks[i] = 0 THEN FALSE ELSE @,
               !.co[c] = [@ EXCEPT !.pc = "h_acq", !.obj = o, !.lk = l, !.ret = ret]]

(***************************************************************************)
(* TaskQueue._process_queue (the worker)                                   *)
(***************************************************************************)
\* `while self.queue:` / `if self.active_task: sleep(1)` / popleft, start(),
\* try: notify
process_queue(s) ==
  IF s.queue = <<>> THEN [s EXCEPT !.co["w"] = IdleCo]
  ELSE IF s.active_task # 0 THEN [s EXCEPT !.co["w"] = [IdleCo EXCEPT !.pc = "w_busy"]]
  ELSE LET t == popleft(s.queue)
       IN notify_handlers([s EXCEPT !.active_task = t,
                                    !.queue = SeqRemove(s.queue, t),
                                    !.hist.started = @ \cup {t}],
                          "w", t, "w_first")

\* finally: `await self._notify_handlers(self.active_task)`
worker_finally(s) ==
  notify_handlers([s EXCEPT !.hist.final = @ \cup {s.active_task}],
                  "w", s.active_task, "w_final")

\* `while self.active_task.status not in [COMPLETED, ERROR, CANCELED]: sleep(1)`
worker_poll(s) ==
  IF s.status[s.active_task] \in Terminal
    THEN worker_finally(s)
    ELSE [s EXCEPT !.co["w"].pc = "w_poll"]

\* fault: the worker gives up after a task that ended in ERROR
worker_finally_end_stops(s) ==
  LET t == [remove_task(s, tid[s.active_task]) EXCEPT !.active_task = 0]
  IN IF s.co["w"].exc \/ s.status[s.active_task] = "ERROR"
       THEN [t EXCEPT !.co["w"] = IdleCo]
       ELSE process_queue(t)

\* finally: `self.remove_task(self.active_task.task_id); self.active_task = None`;
\* then a CancelledError caught by no `except` leaves the coroutine, else the loop
\* goes on
worker_finally_end(s) ==
  LET t == [remove_task(s, tid[s.active_task]) EXCEPT !.active_task = 0]
  IN IF s.co["w"].exc THEN [t EXCEPT !.co["w"] = IdleCo] ELSE process_queue(t)

(***************************************************************************)
(* TaskQueue.cancel_all_tasks: the drain loop                              *)
(***************************************************************************)
\* `while self.queue:` popleft, task.cancel(), notify; at the end
\* `self.tasks.clear(); return count`
cancel_all_loop(s, c) ==
  IF s.queue # <<>>
    THEN LET t == popleft(s.queue)
         IN notify_handlers(
              task_cancel([s EXCEPT !.queue = SeqRemove(s.queue, t),
                                    !.hist.cancel[t] = "drain"], t),
              c, t, "ca_drain")
    ELSE [s EXCEPT !.tasks = [i \in Ids |-> 0],
                   !.co[c] = [@ EXCEPT !.pc = "ca_ret", !.res = s.co[c].cnt, !.obj = 0]]

(***************************************************************************)
(* CommandHandler.handle_task_status_change after the lock wait            *)
(***************************************************************************)
\* where coroutine c continues when _notify_handlers returns, or (raised) when
\* CancelledError comes out of it
after_handler(s, c, raised) ==
  CASE s.co[c].ret = "w_first" ->
         IF raised THEN worker_finally([s EXCEPT !.co[c].exc = TRUE]) ELSE worker_poll(s)
    [] s.co[c].ret = "w_final" ->
         IF raised THEN [s EXCEPT !.co[c] = IdleCo] ELSE worker_finally_end(s)
    [] s.co[c].ret = "ct" ->
         [s EXCEPT !.co[c] = [@ EXCEPT !.pc = "ct_ret", !.res = 1]]
    [] OTHER ->
         cancel_all_loop([s EXCEPT !.co[c].cnt = @ + 1], c)

\* `self._task_locks[task.task_id]` looked up again at the time of the release
MapLockHeld(s, i) == s.locks[i] # 0 /\ s.locked[s.locks[i]]
ReleaseMapLock(s, i) == [s EXCEPT !.locked[s.locks[i]] = FALSE]

\* the invocations other than c's that acquired lock l and have not released it
OtherHolders(s, c, l) ==
  {d \in Coros \ {c} : d \in s.hist.fs.acq /\ s.co[d].lk = l /\ l # 0}

\* the invocations other than c's that are suspended under a lock they acquired
\* for task_id i: in the COMPLETED branch's upload, in the ERROR branch's
\* send_error_message, or in the `except` block's send_error_message
InBody(s, c, i) ==
  {d \in Coros \ {c} : /\ d \in s.hist.fs.acq
                        /\ s.co[d].pc \in {"h_upload", "h_senderr", "h_exc_send"}
                        /\ tid[s.co[d].obj] = i}

\* `await asyncio.wait_for(self._task_locks[task.task_id].acquire(), ...)` returned
lock_acquired(s, c) ==
  staged([s EXCEPT !.locked[s.co[c].lk] = TRUE],
         [s.hist.fs EXCEPT !.acq = @ \cup {c},
                           !.both = @ \/ InBody(s, c, tid[s.co[c].obj]) # {}])

\* `self._task_locks[task.task_id].release()` executed by coroutine c
release_map_lock(s, c, i) ==
  LET l == s.locks[i]
  IN staged(ReleaseMapLock(s, i),
            [s.hist.fs EXCEPT !.acq = IF s.co[c].lk = l THEN @ \ {c} ELSE @,
                              !.stolen = @ \/ OtherHolders(s, c, l) # {}])

\* lock objects nothing refers to any more are gone; the ones left are renamed
\* 1..k in their order, which no code can observe
forget_unreferenced(s) ==
  LET used == {l \in LockIds : InUse(s, l)}
      rank(l) == IF l = 0 THEN 0 ELSE Cardinality({m \in used : m <= l})
  IN [s EXCEPT !.locks = [i \in Ids |-> rank(s.locks[i])],
               !.locked = [n \in LockIds |-> \E l \in used : rank(l) = n /\ s.locked[l]],
               !.co = [c \in Coros |-> [s.co[c] EXCEPT !.lk = rank(s.co[c].lk)]]]

\* finally: release the map's lock if it is locked, drop the map entry
handler_finally(s, c) ==
  LET i == tid[s.co[c].obj]
      t == IF MapLockHeld(s, i) THEN release_map_lock(s, c, i) ELSE s
      u == staged(t, [t.hist.fs EXCEPT
                        !.acq = @ \ {c},
                        !.leaked = @ \/ (c \in t.hist.fs.acq /\ t.locked[t.co[c].lk]),
                        !.dropped = @ \/ OtherHolders(t, c, t.locks[i]) # {}])
  IN forget_unreferenced([u EXCEPT !.locks[i] = 0, !.co[c].lk = 0])

handler_exit(s, c, raised) == after_handler(handler_finally(s, c), c, raised)

\* `except Exception as e:` sets ERROR unless already ERROR and sends the error
\* message; send_error_message(..., self._get_context()) awaits the chat API
\* (wait) unless it finds no context at all
handler_except(s, c, wait) ==
  LET o == s.co[c].obj
      t == [s EXCEPT !.status[o] = "ERROR", !.error_message[o] = HandlerError]
  IN IF s.status[o] = "ERROR" THEN handler_exit(s, c, FALSE)
     ELSE IF wait \/ s.ptActive # {}
       THEN [send_error_message(t, o) EXCEPT !.co[c].pc = "h_exc_send"]
     ELSE handler_exit(t, c, FALSE)

\* ERROR branch `finally`: `if task.task_id in self.task_processor.active_tasks:`
\* _cleanup_task_files and pop
send_error_finally(s, c) ==
  LET o == s.co[c].obj
  IN IF tid[o] \in s.ptActive
       THEN [cleanup_task_files(s, o) EXCEPT !.ptActive = @ \ {tid[o]}]
       ELSE s

\* `except Exception as e:` of process_task for the exception text e: cleanup,
\* task.fail(user_msg); process_task returns normally into the handler
process_task_failed(s, c, e) ==
  LET o == s.co[c].obj
  IN handler_exit(task_fail(cleanup_task(s, o), o, user_msg(e)), c, FALSE)

\* _handle_local_file: `task.status = TaskStatus.EXTRACTING`, await the extraction
handle_local_file(s, c) ==
  LET o == s.co[c].obj
  IN [s EXCEPT !.status[o] = "EXTRACTING", !.hist.ex = @ \cup {o}, !.co[c].pc = "p_ex"]

\* fault: every task is downloaded first
process_task_downloads_all(s, c) ==
  LET o == s.co[c].obj
  IN [s EXCEPT !.ptActive = @ \cup {tid[o]},
               !.status[o] = "DOWNLOADING", !.co[c].pc = "p_dlstart"]

\* process_task: `self.active_tasks[task.task_id] = ...; task.start()`, then
\* _handle_url_download (`task.status = TaskStatus.DOWNLOADING`) or _handle_local_file
process_task(s, c) ==
  LET o == s.co[c].obj
      t == [s EXCEPT !.ptActive = @ \cup {tid[o]}]
  IN IF src[o] = "url"
       THEN [t EXCEPT !.status[o] = "DOWNLOADING", !.co[c].pc = "p_dlstart"]
       ELSE handle_local_file(t, c)

\* the handler once it holds the lock: "already handled" check and the branches
\* on task.status; lock releases go through the map (KeyError when the entry is
\* gone, RuntimeError when that lock is not held: both reach `except Exception`)
handler_body(s, c, wait) ==
  LET o == s.co[c].obj
      i == tid[o]
  IN IF i \notin s.ptActive
       THEN IF MapLockHeld(s, i) THEN handler_exit(release_map_lock(s, c, i), c, FALSE)
            ELSE handler_except(s, c, wait)
     ELSE CASE s.status[o] = "WAITING" ->
                 IF MapLockHeld(s, i) THEN process_task(release_map_lock(s, c, i), c)
                 ELSE handler_except(s, c, wait)
            [] s.status[o] = "COMPLETED" ->
                 [upload_called(s, o) EXCEPT !.co[c].pc = "h_upload"]
            [] s.status[o] = "ERROR" ->
                 [send_error_message(s, o) EXCEPT !.co[c].pc = "h_senderr"]
            [] s.status[o] = "CANCELED" ->
                 handler_exit([cleanup_task_files(s, o) EXCEPT !.ptActive = @ \ {i}],
                              c, FALSE)
            [] OTHER -> handler_exit(s, c, FALSE)

(***************************************************************************)
(* TaskQueue.cancel_task                                                   *)
(***************************************************************************)
\* fault: cancel_task reports success whatever it found
cancel_task_returns_true(s, c, b) ==
  IF s.co[c].ret = "ct"
    THEN [s EXCEPT !.co[c] = [@ EXCEPT !.pc = "ct_ret", !.res = 1]]
    ELSE cancel_all_loop([s EXCEPT !.co[c].cnt = @ + 1], c)

\* cancel_task returns b to its caller: the command, or cancel_all_tasks
cancel_task_returns(s, c, b) ==
  IF s.co[c].ret = "ct"
    THEN [s EXCEPT !.co[c] = [@ EXCEPT !.pc = "ct_ret", !.res = IF b THEN 1 ELSE 0]]
    ELSE cancel_all_loop([s EXCEPT !.co[c].cnt = @ + 1], c)

\* TaskQueue.cancel_task up to its first await
cancel_task(s, c, id) ==
  LET task == get_task(s, id)
      t == [s EXCEPT !.status[task] = "CANCELED"]
  IN IF task = 0 THEN cancel_task_returns(s, c, FALSE)
     ELSE IF task = s.active_task
       THEN notify_handlers([t EXCEPT !.cancelReq = (@ \/ s.co["w"].pc # "idle"),
                                      !.hist.cancel[task] = "active"],
                            c, task, s.co[c].ret)
       ELSE cancel_task_returns(
              remove_task([t EXCEPT !.hist.cancel[task] =
                                      IF task \in Range(s.queue) THEN "queued" ELSE "tracked"],
                          id),
              c, TRUE)

(***************************************************************************)
(* Actions: commands                                                       *)
(***************************************************************************)
\* CommandHandler.handle_extract: a task with a fresh task_id is registered with
\* the processor and handed to the queue; tracked unfinished tasks are registered
\* again
handle_extract(o, kind) ==
  /\ NoneRunning
  /\ status[o] = "NONE"
  /\ \A p \in Objs : p < o => status[p] # "NONE"
  /\ src' = [src EXCEPT ![o] = kind]
  /\ tid' = [tid EXCEPT ![o] = o]
  /\ Becomes(add_task(download_telegram_file(
                        [S EXCEPT !.status[o] = "WAITING",
                                  !.ptActive = @ \cup {o} \cup
                                    {tid[t] : t \in {x \in get_all_tasks :
                                                       status[x] \notin Terminal}}],
                        o, kind),
                      o, o))

\* the /cancel command: CommandHandler.handle_cancel calls cancel_task(task_id)
CancelTaskCall(c, id) ==
  /\ NoneRunning
  /\ co[c].pc = "idle"
  /\ Becomes(cancel_task([S EXCEPT !.co[c] = [IdleCo EXCEPT !.op = "ct", !.arg = id,
                                                            !.ret = "ct"]], c, id))
  /\ UNCHANGED <<src, tid>>

\* cancel_task has returned co[c].res (1: True, 0: False) to handle_cancel
CancelTaskReturn(c) ==
  /\ co[c].pc = "ct_ret"
  /\ Becomes([S EXCEPT !.co[c] = IdleCo])
  /\ UNCHANGED <<src, tid>>

\* the /cancelall command: cancel_all_tasks starts with the active task
CancelAllCall(c) ==
  /\ NoneRunning
  /\ co[c].pc = "idle"
  /\ LET s == [S EXCEPT !.co[c] = [IdleCo EXCEPT
                                     !.op = "ca", !.arg = active_task, !.ret = "ca_active",
                                     !.snap = ({active_task} \cup Range(queue)) \ {0}]]
     IN Becomes(IF active_task # 0 THEN cancel_task(s, c, tid[active_task])
                ELSE cancel_all_loop(s, c))
  /\ UNCHANGED <<src, tid>>

\* cancel_all_tasks has returned co[c].res to handle_cancelall
CancelAllReturn(c) ==
  /\ co[c].pc = "ca_ret"
  /\ Becomes([S EXCEPT !.co[c] = IdleCo])
  /\ UNCHANGED <<src, tid>>

(***************************************************************************)
(* Actions: the worker outside the handlers                                *)
(***************************************************************************)
\* the worker runs for the first time, or wakes from sleep(1) in the busy branch
\* or in the status poll
WorkerRun ==
  /\ co["w"].pc \in {"w_start", "w_busy", "w_poll"}
  /\ Resumes("w")
  /\ Becomes(IF co["w"].pc = "w_poll" THEN worker_poll(S) ELSE process_queue(S))
  /\ UNCHANGED <<src, tid>>

\* CancelledError delivered to the worker outside the handlers: before its first
\* step or in the busy sleep it leaves the coroutine; in the poll sleep it is not
\* an Exception, so only `finally` runs
WorkerCancelled ==
  /\ co["w"].pc \in {"w_start", "w_busy", "w_poll"}
  /\ Cancelled("w")
  /\ LET s == [S EXCEPT !.cancelReq = FALSE]
     IN Becomes(IF co["w"].pc = "w_poll"
                  THEN worker_finally([s EXCEPT !.co["w"].exc = TRUE])
                  ELSE [s EXCEPT !.co["w"] = IdleCo])
  /\ UNCHANGED <<src, tid>>

(***************************************************************************)
(* Actions: handle_task_status_change                                      *)
(***************************************************************************)
\* lock.acquire() succeeds and the handler runs to its next await
HAcquire(c) ==
  /\ co[c].pc = "h_acq"
  /\ Resumes(c)
  /\ ~locked[co[c].lk]
  /\ \E wait \in BOOLEAN :
       Becomes(handler_body(lock_acquired(S, c), c, wait))
  /\ UNCHANGED <<src, tid>>

\* wait_for raises TimeoutError while the lock is held: caught by `except Exception`
HAcquireTimeout(c) ==
  /\ co[c].pc = "h_acq"
  /\ Resumes(c)
  /\ locked[co[c].lk]
  /\ \E wait \in BOOLEAN : Becomes(handler_except(S, c, wait))
  /\ UNCHANGED <<src, tid>>

\* COMPLETED branch: _upload_subtitles returns; files cleaned, processor entry popped
HUploadDone(c) ==
  /\ co[c].pc = "h_upload"
  /\ Resumes(c)
  /\ Becomes(handler_exit([cleanup_task_files(S, co[c].obj)
                             EXCEPT !.ptActive = @ \ {tid[co[c].obj]}], c, FALSE))
  /\ UNCHANGED <<src, tid>>

\* COMPLETED branch: _upload_subtitles raises; `task.status = TaskStatus.ERROR; raise`,
\* and the outer `except Exception` finds the status already ERROR
HUploadFailed(c) ==
  /\ co[c].pc = "h_upload"
  /\ Resumes(c)
  /\ Becomes(handler_except([S EXCEPT !.status[co[c].obj] = "ERROR",
                                       !.error_message[co[c].obj] = HandlerError],
                             c, TRUE))
  /\ UNCHANGED <<src, tid>>

\* ERROR branch: send_error_message returns (it swallows its own failures);
\* its `finally` pops the processor entry
HSendErrDone(c) ==
  /\ co[c].pc = "h_senderr"
  /\ Resumes(c)
  /\ Becomes(handler_exit(send_error_finally(S, c), c, FALSE))
  /\ UNCHANGED <<src, tid>>

\* the error message of `except Exception` was sent (or failed, which is logged)
HExcSendDone(c) ==
  /\ co[c].pc = "h_exc_send"
  /\ Resumes(c)
  /\ Becomes(handler_exit(S, c, FALSE))
  /\ UNCHANGED <<src, tid>>

\* CancelledError raised inside the handler (lock wait, upload, error sending):
\* not an Exception, so it passes every `except` and runs the `finally` blocks
HCancelled(c) ==
  /\ co[c].pc \in {"h_acq", "h_upload", "h_senderr", "h_exc_send"}
  /\ Cancelled(c)
  /\ LET s == [S EXCEPT !.cancelReq = FALSE]
     IN Becomes(handler_exit(IF co[c].pc = "h_senderr" THEN send_error_finally(s, c) ELSE s,
                             c, TRUE))
  /\ UNCHANGED <<src, tid>>

(***************************************************************************)
(* Actions: TaskProcessor.process_task, awaited by the WAITING branch      *)
(***************************************************************************)
\* `gid = self.video_downloader.start_download(task.url)`: a handle, then the poll loop
PStartDownload(c) ==
  /\ co[c].pc = "p_dlstart"
  /\ Becomes(start_download([S EXCEPT !.hist.dl = @ \cup {co[c].obj},
                                      !.gid[co[c].obj] = TRUE, !.co[c].pc = "p_dl"],
                            co[c].obj))
  /\ UNCHANGED <<src, tid>>

\* start_download returns None: RuntimeError, `except Exception` fails the task
PStartDownloadFailed(c) ==
  /\ co[c].pc = "p_dlstart"
  /\ Becomes(process_task_failed([S EXCEPT !.hist.dl = @ \cup {co[c].obj}], c, OtherError))
  /\ UNCHANGED <<src, tid>>

\* fault: the poll goes on to the extraction whatever the handle reports
handle_url_download_poll_any(s, c, d) == handle_local_file(s, c)

\* one round of the poll loop of _handle_url_download that ends it; d is what
\* get_download(gid) shows: no download ("notfound"), has_failed ("failed") or
\* is_complete ("complete")
handle_url_download_poll(s, c, d) ==
  IF d = "complete"
    THEN handle_local_file(
           download_complete([s EXCEPT !.hist.dlc = @ \cup {s.co[c].obj}], s.co[c].obj), c)
    ELSE process_task_failed(s, c, OtherError)

\* the poll finds the download complete: _handle_local_file
PDownloadComplete(c) ==
  /\ co[c].pc = "p_dl"
  /\ Resumes(c)
  /\ Becomes(handle_url_download_poll(S, c, "complete"))
  /\ UNCHANGED <<src, tid>>

\* the poll finds no download or a failed one: RuntimeError, the task fails
PDownloadFailed(c) ==
  /\ co[c].pc = "p_dl"
  /\ Resumes(c)
  /\ \E d \in {"notfound", "failed"} : Becomes(handle_url_download_poll(S, c, d))
  /\ UNCHANGED <<src, tid>>

\* `except asyncio.CancelledError:` of process_task: cleanup, task.cancel(), pop the
\* processor entry; the error is swallowed and process_task returns normally
process_task_cancelled(s, c) ==
  LET o == s.co[c].obj
  IN handler_exit([task_cancel(cleanup_task(s, o), o) EXCEPT !.ptActive = @ \ {tid[o]}],
                  c, FALSE)

\* CancelledError inside _handle_local_file, raised by the CANCELED check after
\* the extraction returned or (aborted) delivered while it ran: `except
\* asyncio.CancelledError` cancels the extraction, `finally`, and on into
\* process_task
handle_local_file_cancelled(s, c, aborted, part) ==
  LET o == s.co[c].obj
      t == IF aborted THEN extraction_aborted(s, o, part) ELSE s
  IN process_task_cancelled(handle_local_file_finally(t, o), c)

\* fault: extraction success recorded as COMPLETED at once
handle_local_file_skips(s, c) ==
  [s EXCEPT !.status[s.co[c].obj] = "COMPLETED", !.co[c].pc = "p_up"]

\* the status written when extraction returned at least one subtitle
handle_local_file_done(s, c) ==
  LET o == s.co[c].obj
  IN [handle_local_file_finally(s, o) EXCEPT !.status[o] = "UPLOADING", !.co[c].pc = "p_up"]

\* extract_subtitles wrote one track and appended it to task.output_files
PExtractTrack(c) ==
  /\ co[c].pc = "p_ex"
  /\ Resumes(c)
  /\ ~output_files[co[c].obj]
  /\ Becomes(track_written([S EXCEPT !.output_files[co[c].obj] = TRUE], co[c].obj))
  /\ UNCHANGED <<src, tid>>

\* extraction returned the tracks it wrote: `task.status = TaskStatus.UPLOADING`,
\* unless the status is CANCELED, which raises CancelledError into process_task
PExtractDone(c) ==
  /\ co[c].pc = "p_ex"
  /\ Resumes(c)
  /\ output_files[co[c].obj]
  /\ Becomes(IF status[co[c].obj] = "CANCELED"
               THEN handle_local_file_cancelled(S, c, FALSE, FALSE)
               ELSE handle_local_file_done(S, c))
  /\ UNCHANGED <<src, tid>>

\* fault: an empty extraction result is taken for a success
handle_local_file_empty_uploads(s, c) ==
  LET o == s.co[c].obj
  IN [s EXCEPT !.hist.empty = @ \cup {o}, !.status[o] = "UPLOADING", !.co[c].pc = "p_up"]

\* the result of _handle_local_file when extraction returned []
handle_local_file_empty(s, c) ==
  LET o == s.co[c].obj
  IN process_task_failed(handle_local_file_finally([s EXCEPT !.hist.empty = @ \cup {o}], o),
                         c, NoSubtitlesFound)

\* extraction returned [] (no track, or none could be written): RuntimeError
\* "No subtitles found", unless the status is CANCELED
PExtractEmpty(c) ==
  /\ co[c].pc = "p_ex"
  /\ Resumes(c)
  /\ ~output_files[co[c].obj]
  /\ Becomes(IF status[co[c].obj] = "CANCELED"
               THEN handle_local_file_cancelled(S, c, FALSE, FALSE)
               ELSE handle_local_file_empty(S, c))
  /\ UNCHANGED <<src, tid>>

\* extraction raised (mkvmerge failed or its output did not parse, before any
\* track was written): the task fails
PExtractFailed(c) ==
  /\ co[c].pc = "p_ex"
  /\ Resumes(c)
  /\ ~output_files[co[c].obj]
  /\ Becomes(process_task_failed(handle_local_file_finally(S, co[c].obj), c, OtherError))
  /\ UNCHANGED <<src, tid>>

\* `task.complete(TaskStatus.COMPLETED)`, process_task returns
PComplete(c) ==
  /\ co[c].pc = "p_up"
  /\ Becomes(handler_exit(task_complete(S, co[c].obj), c, FALSE))
  /\ UNCHANGED <<src, tid>>

\* CancelledError delivered in the download poll sleep or in the extraction await
PCancelled(c) ==
  /\ co[c].pc \in {"p_dl", "p_ex"}
  /\ Cancelled(c)
  /\ LET s == [S EXCEPT !.cancelReq = FALSE]
     IN IF co[c].pc = "p_ex"
          THEN \E part \in BOOLEAN : Becomes(handle_local_file_cancelled(s, c, TRUE, part))
          ELSE Becomes(process_task_cancelled(s, c))
  /\ UNCHANGED <<src, tid>>

(***************************************************************************)
(* Specification                                                           *)
(***************************************************************************)
Handler(c) ==
  \/ HAcquire(c) \/ HAcquireTimeout(c) \/ HUploadDone(c) \/ HUploadFailed(c)
  \/ HSendErrDone(c) \/ HExcSendDone(c) \/ HCancelled(c)

Process(c) ==
  \/ PStartDownload(c) \/ PStartDownloadFailed(c)
  \/ PDownloadComplete(c) \/ PDownloadFailed(c)
  \/ PExtractTrack(c) \/ PExtractDone(c) \/ PExtractEmpty(c) \/ PExtractFailed(c)
  \/ PComplete(c) \/ PCancelled(c)

Commands ==
  \/ \E o \in Objs, kind \in {"url", "file"} : handle_extract(o, kind)
  \/ \E c \in Callers, id \in Ids : CancelTaskCall(c, id)
  \/ \E c \in Callers : CancelAllCall(c)
  \/ \E c \in Callers : CancelTaskReturn(c) \/ CancelAllReturn(c)

Next ==
  \/ Commands
  \/ WorkerRun
  \/ WorkerCancelled
  \/ \E c \in Coros : Handler(c) \/ Process(c)

Spec == Init /\ [][Next]_vars

TypeOK ==
  /\ status \in [Objs -> TaskStatus \cup {"NONE"}]
  /\ tasks \in [Ids -> Objs \cup {0}]
  /\ active_task \in Objs \cup {0}
  /\ ptActive \subseteq Ids
  /\ output_files \in [Objs -> BOOLEAN]
  /\ \A c \in Coros : co[c].lk \in LockIds \cup {0}
  /\ Cardinality({c \in Coros : co[c].pc \notin SuspPcs}) <= 1
  /\ \A st \in TaskStatus : Len(task_handlers[st]) <= MaxHandlers
  /\ nf.pc \in {"idle", "in_handler", "returned", "escaped"}
  /\ jobs \in [JobIds -> JTasks \cup {0}]
  /\ \A t \in JTasks : jt[t].pc \in {"none", "new", "cb", "sleep", "done"}

(***************************************************************************)
(* A client of TaskQueue that chooses the task_id itself                   *)
(***************************************************************************)
\* TaskQueue.add_task called directly with task object o carrying task_id id,
\* tracked already or not
AddTaskCall(o, id, kind) ==
  /\ NoneRunning
  /\ status[o] = "NONE"
  /\ \A p \in Objs : p < o => status[p] # "NONE"
  /\ src' = [src EXCEPT ![o] = kind]
  /\ tid' = [tid EXCEPT ![o] = id]
  /\ Becomes(add_task([S EXCEPT !.status[o] = "WAITING", !.ptActive = @ \cup {id}], o, id))

NextDup ==
  \/ \E o \in Objs, id \in Ids, kind \in {"url", "file"} : AddTaskCall(o, id, kind)
  \/ \E c \in Callers, id \in Ids : CancelTaskCall(c, id)
  \/ \E c \in Callers : CancelAllCall(c)
  \/ \E c \in Callers : CancelTaskReturn(c) \/ CancelAllReturn(c)
  \/ WorkerRun
  \/ WorkerCancelled
  \/ \E c \in Coros : Handler(c) \/ Process(c)

SpecDup == Init /\ [][NextDup]_vars

\* the orchestration with the staging directory followed
SpecStaging == InitStaging /\ [][Next]_vars

(***************************************************************************)
(* TaskQueue as a dispatcher: add_status_handler and _notify_handlers with *)
(* any handlers.  A handler is an awaited callable: while the frame waits  *)
(* in it, other coroutines run, so handlers may be registered meanwhile,   *)
(* and the handler may assign task.status before it returns or raises.     *)
(***************************************************************************)
\* the statuses tasks are notified with here
NotifyStatuses == {"WAITING", "ERROR"}

\* TaskQueue.add_status_handler
add_status_handler(th, st, h) == [th EXCEPT ![st] = Append(@, h)]

\* fault: the list is looked up again by the status the task has now
next_handler_by_current_status(th, f) ==
  IF f.idx < Len(th[f.cur])
    THEN [f EXCEPT !.pc = "in_handler", !.idx = @ + 1,
                   !.log = Append(@, th[f.cur][f.idx + 1])]
    ELSE [f EXCEPT !.pc = "returned"]

\* `for handler in handlers:` over the list fetched by the status at the call
\* (the list object itself, which add_status_handler appends to):
\* `await handler(task)` for the next entry, or the end of the loop
next_handler(th, f) ==
  IF f.idx < Len(th[f.st])
    THEN [f EXCEPT !.pc = "in_handler", !.idx = @ + 1,
                   !.log = Append(@, th[f.st][f.idx + 1])]
    ELSE [f EXCEPT !.pc = "returned"]

\* fault: the exception of a handler leaves _notify_handlers
handler_raised_propagates(th, f) ==
  [f EXCEPT !.pc = "escaped", !.raised = @ \cup {f.idx}]

\* `except Exception as e: logger.error(...)`: the loop goes on
handler_raised(th, f) == next_handler(th, [f EXCEPT !.raised = @ \cup {f.idx}])

\* a coroutine registers handler h for status st
AddStatusHandler(st, h) ==
  /\ Len(task_handlers[st]) < MaxHandlers
  /\ task_handlers' = add_status_handler(task_handlers, st, h)
  /\ UNCHANGED <<nf, jobVars, uploadVars, progressVars, status, src, tid, completed_at, gid, queue, tasks,
                 active_task, cancelReq, ptActive, locks, locked, co, output_files,
                 error_message, hist>>

NotifyStep(f) ==
  /\ nf' = f
  /\ UNCHANGED <<task_handlers, jobVars, uploadVars, progressVars, status, src, tid, completed_at, gid, queue,
                 tasks, active_task, cancelReq, ptActive, locks, locked, co,
                 output_files, error_message, hist>>

\* _notify_handlers(task) is called with a task whose status is st:
\* `handlers = self.task_handlers.get(task.status, [])`, up to the first await
NotifyCall(st) ==
  /\ nf.pc # "in_handler"
  /\ NotifyStep(next_handler(task_handlers,
                  [IdleFrame EXCEPT !.st = st, !.cur = st, !.snap = task_handlers[st]]))

\* the awaited handler returns, having left task.status at st2
NotifyHandlerReturns(st2) ==
  /\ nf.pc = "in_handler"
  /\ NotifyStep(next_handler(task_handlers, [nf EXCEPT !.cur = st2]))

\* the awaited handler raises an Exception, having left task.status at st2
NotifyHandlerRaises(st2) ==
  /\ nf.pc = "in_handler"
  /\ NotifyStep(handler_raised(task_handlers, [nf EXCEPT !.cur = st2]))

\* the coroutine that runs _notify_handlers is cancelled while it awaits the
\* handler: CancelledError is not an Exception
NotifyCancelled ==
  /\ nf.pc = "in_handler"
  /\ NotifyStep([nf EXCEPT !.pc = "escaped"])

NextNotify ==
  \/ \E st \in NotifyStatuses, h \in HandlerIds : AddStatusHandler(st, h)
  \/ \E st \in NotifyStatuses : NotifyCall(st)
  \/ \E st2 \in NotifyStatuses : NotifyHandlerReturns(st2)
  \/ \E st2 \in NotifyStatuses : NotifyHandlerRaises(st2)
  \/ NotifyCancelled

\* TaskQueue.__init__: no handler is registered
InitNotify ==
  /\ InitTasks
  /\ task_handlers = [st \in TaskStatus |-> <<>>]
  /\ nf = IdleFrame
  /\ InitJobManager

SpecNotify == InitNotify /\ [][NextNotify]_vars

(***************************************************************************)
(* JobManager.  Every start_job that passes its guard creates an           *)
(* asyncio.Task running _run_job(job_id); a task is "new" until the event  *)
(* loop runs its first step, then alternates between the awaited callback  *)
(* ("cb") and asyncio.sleep ("sleep"), and is "done" at the end.  cancel   *)
(* is the pending CancelledError of Task.cancel().  A task that is done    *)
(* and that the jobs map does not hold any more is no object any more.     *)
(***************************************************************************)
CallbackIds == {"cbA", "cbB"}
Intervals == {1, 2}

J == [jobs |-> jobs, callbacks |-> callbacks, intervals |-> intervals, jt |-> jt]

\* asyncio.Task.done()
job_done(j, t) == j.jt[t].pc = "done"

\* the Task objects that may run _run_job(id)
TasksOf(id) == {2 * id - 1, 2 * id}

\* the Task object that asyncio.create_task returns
NewJobTask(j, id) ==
  CHOOSE t \in TasksOf(id) : j.jt[t].pc = "none"
                               /\ \A u \in TasksOf(id) : u < t => j.jt[u].pc # "none"

\* start_job after its guard; a done task that jobs[id] held is dropped
create_run_job(j, id, cb, iv) ==
  LET old == j.jobs[id]
      k == IF old # 0 /\ job_done(j, old) THEN [j EXCEPT !.jt[old] = NoJob] ELSE j
      t == NewJobTask(k, id)
  IN [k EXCEPT !.callbacks[id] = cb, !.intervals[id] = iv, !.jobs[id] = t,
               !.jt[t] = [pc |-> "new", job |-> id, cancel |-> FALSE,
                          cb |-> cb, iv |-> iv, again |-> FALSE]]

\* fault: start_job without its guard
start_job_always(j, id, cb, iv) == create_run_job(j, id, cb, iv)

\* JobManager.start_job
start_job(j, id, cb, iv) ==
  IF j.jobs[id] # 0 /\ ~job_done(j, j.jobs[id])
    THEN j
    ELSE create_run_job(j, id, cb, iv)

\* JobManager.stop_job
stop_job(j, id) ==
  IF j.jobs[id] # 0 /\ ~job_done(j, j.jobs[id])
    THEN [j EXCEPT !.jt[j.jobs[id]].cancel = TRUE]
    ELSE j

\* JobManager.stop_all_jobs: `for job_id in list(self.jobs.keys())`
RECURSIVE stop_jobs(_, _)
stop_jobs(j, ids) ==
  IF ids = {} THEN j
  ELSE LET id == CHOOSE i \in ids : \A k \in ids : i <= k
       IN stop_jobs(stop_job(j, id), ids \ {id})

stop_all_jobs(j) == stop_jobs(j, {id \in JobIds : j.jobs[id] # 0})

\* the finally block of _run_job, after which the task is done
run_job_finally(j, t) ==
  LET id == j.jt[t].job
  IN [j EXCEPT !.jobs[id] = 0, !.callbacks[id] = "-", !.intervals[id] = 0,
               !.jt[t] = NoJob]

\* `except Exception as e: logger.error(...)` around the while loop, then finally
run_job_callback_raised(j, t) == run_job_finally(j, t)

\* a coroutine that raises CancelledError before its try block: the task is
\* done, the maps are as they were
run_job_not_started(j, t) ==
  [j EXCEPT !.jt[t] = IF j.jobs[j.jt[t].job] = t
                        THEN [NoJob EXCEPT !.pc = "done", !.job = j.jt[t].job]
                        ELSE NoJob]

JobBecomes(j) ==
  /\ jobs' = j.jobs
  /\ callbacks' = j.callbacks
  /\ intervals' = j.intervals
  /\ jt' = j.jt
  /\ UNCHANGED <<dispatchVars, uploadVars, progressVars, status, src, tid, completed_at, gid, queue, tasks,
                 active_task, cancelReq, ptActive, locks, locked, co, output_files,
                 error_message, hist>>

\* a coroutine calls start_job (no await inside: it runs in one piece)
StartJob(id, cb, iv) ==
  /\ \E t \in TasksOf(id) : jt[t].pc \in {"none", "done"}
  /\ LET j == start_job(J, id, cb, iv)
     IN JobBecomes(IF jobs[id] # 0 /\ j.jobs[id] = jobs[id] /\ cb # callbacks[id]
                     THEN [j EXCEPT !.jt[jobs[id]].again = TRUE]
                     ELSE j)

\* a coroutine calls stop_job
StopJob(id) ==
  /\ id \in JobIds
  /\ JobBecomes(stop_job(J, id))

\* a coroutine calls stop_all_jobs
StopAllJobs ==
  /\ JobIds # {}
  /\ JobBecomes(stop_all_jobs(J))

\* first step of the task: `await self.callbacks[job_id]()`
JobStarts(t) ==
  /\ jt[t].pc = "new" /\ ~jt[t].cancel
  /\ JobBecomes([J EXCEPT !.jt[t].pc = "cb"])

\* first step of a task cancelled before it: CancelledError is thrown into the
\* coroutine before its try block is entered, so no finally block runs
JobCancelledBeforeStart(t) ==
  /\ jt[t].pc = "new" /\ jt[t].cancel
  /\ JobBecomes(run_job_not_started(J, t))

\* the callback returns: `await asyncio.sleep(self.intervals[job_id])`
JobCallbackReturns(t) ==
  /\ jt[t].pc = "cb" /\ ~jt[t].cancel
  /\ JobBecomes([J EXCEPT !.jt[t].pc = "sleep"])

\* the callback raises an Exception
JobCallbackRaises(t) ==
  /\ jt[t].pc = "cb" /\ ~jt[t].cancel
  /\ JobBecomes(run_job_callback_raised(J, t))

\* the callback calls stop_job, for its own job or another one
JobCallbackStops(t, id) ==
  /\ jt[t].pc = "cb"
  /\ JobBecomes(stop_job(J, id))

\* the sleep is over: next iteration of `while True`
JobWakes(t) ==
  /\ jt[t].pc = "sleep" /\ ~jt[t].cancel
  /\ JobBecomes([J EXCEPT !.jt[t].pc = "cb"])

\* CancelledError is raised at the await the task is suspended at:
\* `except asyncio.CancelledError: pass`, then finally
JobCancelled(t) ==
  /\ jt[t].pc \in {"cb", "sleep"} /\ jt[t].cancel
  /\ JobBecomes(run_job_finally(J, t))

\* the steps the event loop runs for a task that is ready
JobRuns(t) ==
  \/ JobStarts(t) \/ JobCancelledBeforeStart(t)
  \/ JobCallbackReturns(t) \/ JobCallbackRaises(t)
  \/ JobWakes(t) \/ JobCancelled(t)

NextJobs ==
  \/ \E id \in JobIds, cb \in CallbackIds, iv \in Intervals : StartJob(id, cb, iv)
  \/ \E id \in JobIds : StopJob(id)
  \/ StopAllJobs
  \/ \E t \in JTasks, id \in JobIds : JobCallbackStops(t, id)
  \/ \E t \in JTasks : JobRuns(t)

SpecJobs == Init /\ [][NextJobs]_vars

\* the event loop runs every ready task, and callbacks and sleeps end
SpecJobsFair == SpecJobs /\ \A t \in JTasks : WF_vars(JobRuns(t))

(***************************************************************************)
(* CommandHandler._upload_subtitles, called by the COMPLETED branch of     *)
(* handle_task_status_change                                               *)
(***************************************************************************)
taskVars == <<status, src, tid, completed_at, gid, queue, tasks, active_task,
              cancelReq, ptActive, locks, locked, co, output_files, error_message,
              hist>>

\* the except clauses of _upload_subtitles and of the COMPLETED branch: the
\* files uploaded so far are removed, ValueError is raised, the handler sets
\* task.status to ERROR and re-raises
upload_raised(u) ==
  [u EXCEPT !.pc = "done", !.exists = @ \ u.uploaded, !.result = "raised",
            !.st = "ERROR"]

\* _upload_subtitles returned: the handler removes the task's files
upload_returned(u) == [u EXCEPT !.pc = "done", !.exists = {}, !.result = "returned"]

\* the for loop from file f on: a file that is not on disk is skipped, the
\* first one that is gets its first send_document call
RECURSIVE upload_from(_, _)
upload_from(u, f) ==
  IF f > u.n THEN upload_returned([u EXCEPT !.idx = f])
  ELSE IF f \notin u.exists THEN upload_from(u, f + 1)
  ELSE [u EXCEPT !.pc = "send", !.idx = f, !.retries = 0, !.attempts[f] = @ + 1]

\* _upload_subtitles(task, context) up to its first await; an empty
\* output_files raises ValueError before the try
upload_subtitles(n, ex) ==
  LET u == [IdleUpload EXCEPT !.n = n, !.exists = ex, !.st = "COMPLETED"]
  IN IF n = 0 THEN upload_raised(u) ELSE upload_from(u, 1)

\* send_document returned: uploaded.append, break, next file
send_document_returned(u) ==
  upload_from([u EXCEPT !.uploaded = @ \cup {u.idx}], u.idx + 1)

\* fault: one more attempt than MAX_RETRIES
send_document_transient_again(u) ==
  LET r == u.retries + 1
      v == [u EXCEPT !.retries = r, !.fails[u.idx] = @ + 1]
  IN IF r <= MAX_RETRIES
       THEN [v EXCEPT !.pc = "sleep", !.waits[u.idx] = Append(@, BASE_RETRY_DELAY * r)]
       ELSE upload_raised(v)

\* send_document raised TimedOut, NetworkError, ReadTimeout or RetryAfter
send_document_transient(u) ==
  LET r == u.retries + 1
      v == [u EXCEPT !.retries = r, !.fails[u.idx] = @ + 1]
  IN IF r < MAX_RETRIES
       THEN [v EXCEPT !.pc = "sleep", !.waits[u.idx] = Append(@, BASE_RETRY_DELAY * r)]
       ELSE upload_raised(v)

\* asyncio.sleep(retry_delay) returned: the while loop calls send_document again
upload_retry(u) == [u EXCEPT !.pc = "send", !.attempts[u.idx] = @ + 1]

\* CancelledError at an await of _upload_subtitles: no except clause of the
\* upload or of the COMPLETED branch catches it
upload_cancelled(u) == [u EXCEPT !.pc = "done", !.result = "cancelled"]

UploadCall(n, ex) ==
  /\ up.pc \in {"idle", "done"}
  /\ up' = upload_subtitles(n, ex)
  /\ UNCHANGED <<taskVars, dispatchVars, jobVars, progressVars>>

SendDocumentReturns ==
  /\ up.pc = "send"
  /\ up' = send_document_returned(up)
  /\ UNCHANGED <<taskVars, dispatchVars, jobVars, progressVars>>

SendDocumentTransient ==
  /\ up.pc = "send"
  /\ up' = send_document_transient(up)
  /\ UNCHANGED <<taskVars, dispatchVars, jobVars, progressVars>>

\* send_document raised another Exception (BadRequest, ...)
SendDocumentRaises ==
  /\ up.pc = "send"
  /\ up' = upload_raised(up)
  /\ UNCHANGED <<taskVars, dispatchVars, jobVars, progressVars>>

UploadSleepReturns ==
  /\ up.pc = "sleep"
  /\ up' = upload_retry(up)
  /\ UNCHANGED <<taskVars, dispatchVars, jobVars, progressVars>>

UploadCancelled ==
  /\ up.pc \in {"send", "sleep"}
  /\ up' = upload_cancelled(up)
  /\ UNCHANGED <<taskVars, dispatchVars, jobVars, progressVars>>

NextUpload ==
  \/ \E n \in 0 .. MaxFiles : \E ex \in SUBSET (1 .. n) : UploadCall(n, ex)
  \/ SendDocumentReturns
  \/ SendDocumentTransient
  \/ SendDocumentRaises
  \/ UploadSleepReturns
  \/ UploadCancelled

SpecUpload == Init /\ [][NextUpload]_vars

(***************************************************************************)
(* The progress fields of one task under TaskProcessor.process_task        *)
(***************************************************************************)
\* SubtitleTask.complete(COMPLETED): `self.progress = 100.0`
task_complete_progress(t) ==
  [t EXCEPT !.pc = "done", !.status = "COMPLETED", !.progress = 100]

\* SubtitleTask.update_progress(progress, speed, downloaded, total)
update_progress(t, progress, speed, downloaded, total) ==
  [t EXCEPT !.progress = progress, !.speed = speed, !.downloaded = downloaded,
            !.total_size = total]

\* the poll loop's progress for completed_length d of total_length n, in whole
\* percent; with no total the engine's own figure, which is then 0
poll_progress(d, n) == IF n > 0 THEN (d * 100) \div n ELSE 0

\* process_task for a fresh task: _handle_url_download sets DOWNLOADING,
\* _handle_local_file sets EXTRACTING
ProgressStart(url) ==
  /\ pg.pc \in {"idle", "done"}
  /\ pg' = [NewTask EXCEPT !.url = url,
                            !.pc = IF url THEN "p_dl" ELSE "p_ex",
                            !.status = IF url THEN "DOWNLOADING" ELSE "EXTRACTING"]
  /\ UNCHANGED <<taskVars, dispatchVars, jobVars, uploadVars>>

\* one round of the poll loop with the download still running: the engine
\* reports completed_length d, total_length n and download_speed v
ProgressPoll(d, n, v) ==
  /\ pg.pc = "p_dl"
  /\ d <= n
  /\ pg' = update_progress(pg, poll_progress(d, n), v, d, n)
  /\ UNCHANGED <<taskVars, dispatchVars, jobVars, uploadVars>>

\* the poll finds is_complete: break, _handle_local_file sets EXTRACTING
ProgressDownloaded ==
  /\ pg.pc = "p_dl"
  /\ pg' = [pg EXCEPT !.pc = "p_ex", !.status = "EXTRACTING"]
  /\ UNCHANGED <<taskVars, dispatchVars, jobVars, uploadVars>>

\* extraction returned subtitles: `task.status = TaskStatus.UPLOADING`
ProgressExtracted ==
  /\ pg.pc = "p_ex"
  /\ pg' = [pg EXCEPT !.pc = "p_up", !.status = "UPLOADING"]
  /\ UNCHANGED <<taskVars, dispatchVars, jobVars, uploadVars>>

\* `task.complete(TaskStatus.COMPLETED)`
ProgressCompleted ==
  /\ pg.pc = "p_up"
  /\ pg' = task_complete_progress(pg)
  /\ UNCHANGED <<taskVars, dispatchVars, jobVars, uploadVars>>

\* task.fail (an exception in the download or the extraction) or task.cancel
\* (CancelledError): the status only
ProgressEnded(st) ==
  /\ pg.pc \in {"p_dl", "p_ex"}
  /\ pg' = [pg EXCEPT !.pc = "done", !.status = st]
  /\ UNCHANGED <<taskVars, dispatchVars, jobVars, uploadVars>>

NextProgress ==
  \/ \E url \in BOOLEAN : ProgressStart(url)
  \/ \E n \in 0 .. MaxLen, d \in 0 .. MaxLen, v \in 0 .. 1 : ProgressPoll(d, n, v)
  \/ ProgressDownloaded
  \/ ProgressExtracted
  \/ ProgressCompleted
  \/ \E st \in {"ERROR", "CANCELED"} : ProgressEnded(st)

SpecProgress == Init /\ [][NextProgress]_vars

(***************************************************************************)
(* Properties                                                              *)
(***************************************************************************)
\* C1 (single flight): in every reachable state at most one task has a status
\* in {DOWNLOADING, EXTRACTING, UPLOADING}.
C1_SingleFlight == Cardinality({o \in Objs : status[o] \in Stages}) <= 1

\* one task is in a processing stage while another one waits in the FIFO
C1_Witness ==
  \E a, b \in Objs : a # b /\ status[a] \in Stages /\ status[b] = "WAITING"
                           /\ b \in Range(queue)

\* C2 (terminal states absorbing): a status that is COMPLETED, ERROR or CANCELED
\* is never changed by any step.
C2_TerminalAbsorbing ==
  [][\A o \in Objs : status[o] \in Terminal => status'[o] = status[o]]_vars

\* the edges of the status machine for task o
Edges(o) ==
  {<<"WAITING", "DOWNLOADING">>, <<"DOWNLOADING", "EXTRACTING">>,
   <<"EXTRACTING", "UPLOADING">>, <<"UPLOADING", "COMPLETED">>}
  \cup (IF src[o] = "file" THEN {<<"WAITING", "EXTRACTING">>} ELSE {})
  \cup {<<a, b>> : a \in TaskStatus \ Terminal, b \in {"ERROR", "CANCELED"}}

\* C3 (status edges): every change of a non-terminal status follows
\* WAITING -> DOWNLOADING -> EXTRACTING -> UPLOADING -> COMPLETED (WAITING ->
\* EXTRACTING for a local file) or goes to ERROR or CANCELED.
C3_EdgesOnly ==
  [][\A o \in Objs :
       (status[o] \in TaskStatus \ Terminal /\ status'[o] # status[o])
         => <<status[o], status'[o]>> \in Edges(o)]_vars

\* a URL task went through download and extraction to COMPLETED, and a local
\* file task reached UPLOADING
C3_Witness ==
  \E a, b \in Objs : /\ src[a] = "url" /\ a \in hist.dl /\ a \in hist.ex
                     /\ status[a] = "COMPLETED"
                     /\ src[b] = "file" /\ status[b] = "UPLOADING"

\* C4 (duplicate task_id): add_task with a task_id that is already tracked
\* leaves the FIFO length, the number of tracked tasks and the tracked object
\* as they were.
C4_DuplicateIgnored ==
  [][\A o \in Objs, id \in Ids, kind \in {"url", "file"} :
       (AddTaskCall(o, id, kind) /\ tasks[id] # 0)
         => /\ Len(queue') = Len(queue)
            /\ Cardinality({i \in Ids : tasks'[i] # 0}) = Cardinality({i \in Ids : tasks[i] # 0})
            /\ tasks'[id] = tasks[id]]_vars

\* C5 (cancel of a queued task): a task cancelled while queued is in neither the
\* FIFO nor the task map afterwards, and start_download and extract_subtitles
\* are never invoked for it.
C5_QueuedCancelRemoves ==
  \A o \in Objs :
    hist.cancel[o] = "queued"
      => /\ o \notin Range(queue)
         /\ tasks[tid[o]] # o
         /\ o \notin hist.dl \cup hist.ex

\* cancel_task has returned True for a queued task while another task was active,
\* and the worker has gone on to finish that one
C5_Witness ==
  \E o, a \in Objs : /\ hist.cancel[o] = "queued" /\ status[o] = "CANCELED"
                     /\ a # o /\ a \in hist.started /\ status[a] \in Terminal
                     /\ active_task = 0 /\ co["w"].pc = "idle"

\* C6 (queued cancel notifies): when cancel_task finds the task queued, the
\* handlers run for it before cancel_task returns: the step that cancels it
\* takes the caller into the handler.
C6_QueuedCancelNotifies ==
  [][\A o \in Objs :
       (hist.cancel[o] # "queued" /\ hist'.cancel[o] = "queued")
         => \E c \in Callers : co'[c].obj = o /\ co'[c].pc = "h_acq"]_vars

\* no coroutine is working on task o any more
Settled(o) == ~cancelReq /\ \A c \in Coros : co[c].pc = "idle" \/ co[c].obj # o

\* C7 (cancel of the active task): once cancel_task on the active task and the
\* interrupted processing are over, the task is CANCELED, out of the task map,
\* and no longer the active task.
C7_ActiveCancelCleansUp ==
  \A o \in Objs :
    (hist.cancel[o] = "active" /\ Settled(o))
      => status[o] = "CANCELED" /\ tasks[tid[o]] # o /\ active_task # o

\* C8 (cancel_all_tasks): called with one active task and n queued ones it
\* returns n+1, all of them are CANCELED and no task is tracked at the return.
C8_CancelAllCounts ==
  \A c \in Callers :
    (co[c].pc = "ca_ret" /\ co[c].arg # 0)
      => /\ co[c].res = Cardinality(co[c].snap)
         /\ \A o \in co[c].snap : status[o] = "CANCELED"
         /\ get_all_tasks = {}

\* C9 (unknown task_id): cancel_task with an untracked task_id returns False and
\* changes neither the FIFO, the task map, the active task, the worker, any
\* status, nor enters any handler.
C9_UnknownCancelNoop ==
  [][\A c \in Callers :
       (co[c].pc = "idle" /\ co'[c].op = "ct" /\ tasks[co'[c].arg] = 0)
         => /\ co'[c].pc = "ct_ret" /\ co'[c].res = 0
            /\ co'["w"] = co["w"]
            /\ UNCHANGED <<status, completed_at, queue, tasks, active_task, cancelReq,
                           ptActive, locks, locked, hist>>]_vars

\* cancel_task returned False for an id that is not tracked while a task is
\* active and another one is queued
C9_Witness ==
  \E c \in Callers : /\ co[c].pc = "ct_ret" /\ co[c].res = 0 /\ tasks[co[c].arg] = 0
                     /\ active_task # 0 /\ queue # <<>>

\* C10 (FIFO): tasks are created and added in index order; if B was started by
\* the worker and neither A (added before B) nor B was cancelled, then A was
\* started, is terminal and is no longer tracked.
C10_Fifo ==
  \A a, b \in Objs :
    (a < b /\ b \in hist.started /\ hist.cancel[a] = "-" /\ hist.cancel[b] = "-")
      => a \in hist.started /\ status[a] \in Terminal /\ a \notin get_all_tasks

\* the second of two uncancelled tasks is being processed
C10_Witness ==
  \E a, b \in Objs : /\ a < b /\ b \in hist.started /\ status[b] \in Stages
                     /\ hist.cancel[a] = "-" /\ hist.cancel[b] = "-"

\* no cancel command has touched any task
NoCancel == ~cancelReq /\ \A p \in Objs : hist.cancel[p] = "-"

\* C11 (failure does not stop the queue): without cancels, a started task in
\* ERROR is either still being notified by the worker or it was notified in the
\* worker's finally block, is removed, and the worker has gone on: the FIFO is
\* empty, or the next task is active, or a new worker is about to run.
C11_FailureContinues ==
  NoCancel =>
    \A o \in hist.started :
      status[o] = "ERROR"
        => \/ active_task = o /\ co["w"].obj = o /\ co["w"].pc # "idle"
           \/ /\ o \in hist.final /\ o \notin get_all_tasks /\ active_task # o
              /\ (queue = <<>> \/ active_task # 0 \/ co["w"].pc = "w_start")

\* a task failed and was removed, and the worker is processing the next one
C11_Witness ==
  /\ NoCancel
  /\ \E a, b \in Objs : /\ a \in hist.final /\ status[a] = "ERROR" /\ a \notin get_all_tasks
                        /\ b # a /\ active_task = b /\ status[b] \in Stages

\* C12 (worker lifecycle): after add_task a live worker exists, and the worker
\* terminates only when the FIFO is empty.
C12_WorkerLifecycle ==
  [][/\ (\E o \in Objs : status[o] = "NONE" /\ status'[o] # "NONE") => co'["w"].pc # "idle"
     /\ (co["w"].pc # "idle" /\ co'["w"].pc = "idle") => queue' = <<>>]_vars

IsPrefix(a, b) == Len(a) <= Len(b) /\ SubSeq(b, 1, Len(a)) = a

\* C13 (notify): a notify invokes the handlers registered for the status the
\* task had at the call, in registration order, each registration once: the
\* handlers invoked so far are the first entries of that status's list, and
\* when the notify returns they include the whole list as it was at the call.
C13_NotifyInOrder ==
  nf.pc # "idle"
    => /\ nf.log = SubSeq(task_handlers[nf.st], 1, nf.idx)
       /\ nf.pc = "returned" => IsPrefix(nf.snap, nf.log)

C13_Witness ==
  /\ nf.pc = "returned"
  /\ Len(nf.snap) = 2 /\ nf.snap[1] # nf.snap[2]
  /\ nf.log = nf.snap
  /\ nf.cur # nf.st
  /\ task_handlers[nf.cur] # task_handlers[nf.st]

\* C14 (handler failure): when a handler raises, the notify goes on with the
\* next registered handler, or returns when there is none; the exception does
\* not leave the notify.
C14_RaiseContinues ==
  [][(nf'.raised # nf.raised /\ nf'.raised # {})
       => IF nf.idx < Len(task_handlers[nf.st])
            THEN /\ nf'.pc = "in_handler"
                 /\ nf'.log = Append(nf.log, task_handlers[nf.st][nf.idx + 1])
            ELSE nf'.pc = "returned" /\ nf'.log = nf.log]_vars

C14_Witness ==
  /\ nf.pc = "returned"
  /\ 1 \in nf.raised
  /\ Len(nf.log) = 2 /\ nf.log = nf.snap

\* C15 (start_job idempotent): at most one loop exists per job id, it is the
\* task the jobs map holds for the id, and the callback and the interval of
\* the id are the ones its loop was started with, whatever start_job calls
\* arrived while it was running.
C15_SingleLoop ==
  \A id \in JobIds :
    LET live == {t \in JTasks : jt[t].job = id /\ jt[t].pc \in {"new", "cb", "sleep"}}
    IN /\ Cardinality(live) <= 1
       /\ \A t \in live : /\ jobs[id] = t
                          /\ callbacks[id] = jt[t].cb
                          /\ intervals[id] = jt[t].iv

C15_Witness ==
  \E t \in JTasks : jt[t].again /\ jt[t].pc = "sleep" /\ ~jt[t].cancel

\* C16 (failing callback): a job that is in its callback and that nobody has
\* stopped keeps running whatever the callback does, raising included: its
\* task stays alive and stays the task of its id.
C16_RaiseKeepsRunning ==
  [][\A t \in JTasks :
       (jt[t].pc = "cb" /\ ~jt[t].cancel /\ ~jt'[t].cancel)
         => jt'[t].pc \in {"cb", "sleep"} /\ jobs'[jt[t].job] = t]_vars

\* C17 (stop): once stop_job or stop_all_jobs has cancelled the task of a job,
\* the task starts no callback any more, and the id is eventually removed
\* from jobs, callbacks and intervals.
C17_StopRemoves ==
  /\ [][\A t \in JTasks : jt[t].cancel => ~(jt[t].pc # "cb" /\ jt'[t].pc = "cb")]_vars
  /\ \A id \in JobIds, t \in JTasks :
       (jobs[id] = t /\ jt[t].cancel)
         ~> (jobs[id] = 0 /\ callbacks[id] = "-" /\ intervals[id] = 0)

\* C21 (sequential stages): the extraction of a URL task is invoked only after
\* its download handle reported is_complete, never while the download is still
\* polled; an upload is in progress only for a task whose extraction was
\* invoked, has returned tracks and is not in flight any more.
C21_StagesSequential ==
  /\ \A o \in hist.ex : src[o] = "url" => o \in hist.dlc
  /\ \A c \in Coros :
       /\ co[c].pc \in {"p_dlstart", "p_dl"} => co[c].obj \notin hist.ex
       /\ co[c].pc = "h_upload"
            => /\ co[c].obj \in hist.ex /\ output_files[co[c].obj]
               /\ \A d \in Coros : ~(co[d].pc = "p_ex" /\ co[d].obj = co[c].obj)

C21_Witness ==
  \E c \in Coros : co[c].pc = "h_upload" /\ src[co[c].obj] = "url"
                    /\ co[c].obj \in hist.dlc

\* C22 (local file): a task created with a local file is never DOWNLOADING, the
\* download collaborator is never invoked for it, and the first stage it enters
\* from WAITING is EXTRACTING.
C22_LocalFileSkipsDownload ==
  /\ [](\A o \in Objs : src[o] = "file" => status[o] # "DOWNLOADING" /\ o \notin hist.dl)
  /\ [][\A o \in Objs :
          (src[o] = "file" /\ status[o] = "WAITING" /\ status'[o] \in Stages)
            => status'[o] = "EXTRACTING"]_vars

C22_Witness ==
  \E o \in Objs : src[o] = "file" /\ status[o] = "COMPLETED" /\ o \in hist.ex
                   /\ o \notin get_all_tasks

\* C28 (queued task untouched): with tasks A then B enqueued and no cancel, in
\* every state where A is DOWNLOADING, B is WAITING and B's task_id is not a key
\* of TaskProcessor.active_tasks.
C28_QueuedNotActive ==
  NoCancel =>
    \A a, b \in Objs :
      (a < b /\ status[a] = "DOWNLOADING" /\ status[b] # "NONE")
        => status[b] = "WAITING" /\ tid[b] \notin ptActive

\* C29 (no retention): a task that is not in the queue's task map any more
\* (removed by the worker, by cancel_task or by cancel_all_tasks) has no entry
\* in TaskProcessor.active_tasks.
C29_ProcessorForgets ==
  \A o \in Objs :
    (status[o] # "NONE" /\ o \notin get_all_tasks) => tid[o] \notin ptActive

\* C26 (transient download failure): a failure the download handle reports
\* while a task is DOWNLOADING (has_failed, or the download is not found) is
\* retried: the step in which the poll sees it does not put the task in ERROR.
C26_DownloadRetried ==
  [][\A c \in Coros :
       (co[c].pc = "p_dl" /\ ~cancelReq /\ status[co[c].obj] = "DOWNLOADING"
          /\ co'[c].pc # "p_dl")
         => status'[co[c].obj] # "ERROR"]_vars

\* C27 (bounded upload retry): send_document is called at most MAX_RETRIES
\* times per file; the k-th wait of a file is BASE_RETRY_DELAY * k and every
\* failed attempt but the last is followed by one; a file whose attempt
\* succeeded is attempted no more and the loop is past it; after MAX_RETRIES
\* failed attempts of a file the task status is ERROR.
C27_UploadRetryBounded ==
  \A f \in Files :
    /\ up.attempts[f] <= MAX_RETRIES
    /\ \A k \in 1 .. Len(up.waits[f]) : up.waits[f][k] = BASE_RETRY_DELAY * k
    /\ Len(up.waits[f]) = IF up.fails[f] < MAX_RETRIES THEN up.fails[f] ELSE MAX_RETRIES - 1
    /\ f \in up.uploaded => up.attempts[f] = up.fails[f] + 1 /\ up.idx > f
    /\ up.fails[f] = MAX_RETRIES
         => up.pc = "done" /\ up.result = "raised" /\ up.st = "ERROR"

\* the second file failed MAX_RETRIES times after the first was uploaded on its
\* last attempt
C27_Witness ==
  /\ up.uploaded = {1} /\ up.attempts[1] = MAX_RETRIES
  /\ up.fails[2] = MAX_RETRIES /\ up.st = "ERROR"
  /\ up.waits[2] = <<BASE_RETRY_DELAY, 2 * BASE_RETRY_DELAY>>

\* the task is terminal, the worker's last notification for it has been handled
\* and no coroutine is still working on it
HandlersFinished(o) ==
  status[o] \in Terminal /\ o \in hist.final /\ active_task # o /\ Settled(o)

\* no video file and no listed subtitle file of the task is on disk and the
\* engine holds no running download of it
StagingClean(o) ==
  o \notin hist.fs.video /\ o \notin hist.fs.subs /\ hist.fs.engine[o] # "active"

\* C23 (cleanup on every exit path): when no cancel was issued, a task that is
\* terminal and whose terminal-state handlers have finished has no video file
\* and no subtitle output file left, and no download handle still running.
C23_CleanupOnEveryExit ==
  NoCancel => \A o \in Objs : HandlersFinished(o) => StagingClean(o)

\* C24 (cancel leaves no files): once a cancel of the active task and the
\* interrupted processing are over, the task has no video file, no listed
\* subtitle file, no running download and no partially written track file left.
C24_CancelLeavesNoFiles ==
  \A o \in Objs :
    (hist.cancel[o] = "active" /\ Settled(o) /\ active_task # o)
      => StagingClean(o) /\ o \notin hist.fs.partial

\* C25 (video outlives the extraction): no step removes the video file of a
\* task and leaves a coroutine waiting for an extraction of that task.
C25_VideoOutlivesExtraction ==
  [][\A o \in Objs :
       (o \in hist.fs.video /\ o \notin hist'.fs.video)
         => ~\E c \in Coros : co'[c].pc = "p_ex" /\ co'[c].obj = o]_vars

\* C30 (one error notification): when no cancel was issued, a task that ended
\* in ERROR and whose handlers have finished had send_error_message called for
\* it exactly once.
C30_ErrorNotifiedOnce ==
  NoCancel =>
    \A o \in Objs : (status[o] = "ERROR" /\ HandlersFinished(o)) => hist.fs.sent[o] = 1

\* C31 (cancellation is not an error): a task that cancel_task or
\* cancel_all_tasks cancelled is never in ERROR afterwards and no
\* send_error_message call was made for it.
C31_CancelNeverError ==
  \A o \in Objs : hist.cancel[o] # "-" => status[o] # "ERROR" /\ hist.fs.sent[o] = 0

\* C32 (terminal handlers run once): for every task, _upload_subtitles is
\* called at most once, _cleanup_task_files runs at most once and at most one
\* send_error_message call is made.
C32_TerminalBodyOnce ==
  \A o \in Objs :
    hist.fs.uploads[o] <= 1 /\ hist.fs.cleaned[o] <= 1 /\ hist.fs.sent[o] <= 1

\* C33 (lock released on every exit): no invocation of
\* handle_task_status_change that acquired its lock ends with that lock still
\* locked.
C33_LockReleasedOnExit == ~hist.fs.leaked

\* C34 (progress per stage): a step that takes the task from one stage into
\* EXTRACTING or UPLOADING leaves progress at 0, and a step that stays in a
\* stage, with byte counts of the engine that did not go back, does not lower
\* progress.
C34_ProgressPerStage ==
  [][/\ (pg.status \in Stages /\ pg'.status \in Stages /\ pg'.status # pg.status)
          => pg'.progress = 0
     /\ (/\ pg.status \in Stages /\ pg'.status = pg.status
         /\ pg'.downloaded >= pg.downloaded /\ pg'.total_size = pg.total_size)
          => pg'.progress >= pg.progress]_vars

\* C35 (worker continues after cancel_task): once cancel_task has cancelled the
\* active task and every command has returned, a stopped worker leaves no task in
\* the queue: the queued tasks are popped without a further add_task.
C35_WorkerContinues ==
  (/\ \E o \in Objs : hist.cancel[o] = "active"
   /\ co["w"].pc = "idle"
   /\ \A c \in Callers : co[c].pc = "idle")
    => queue = <<>>

\* C36 (active pointer never stuck): whenever no worker is running, active_task
\* is None.
C36_ActivePointerCleared == co["w"].pc = "idle" => active_task = 0

\* C37 (cancel_all_tasks against the running worker): when cancel_all_tasks
\* returns, no task that was queued at the call has been popped and started by
\* the worker, and active_task is None (the task map is empty then).
C37_CancelAllStopsWorker ==
  \A c \in Callers :
    co[c].pc = "ca_ret"
      => /\ \A o \in co[c].snap \ {co[c].arg} : o \notin hist.started
         /\ active_task = 0

\* C38 (lock wait timed out): an invocation whose lock wait ends while another
\* invocation holds the lock returns without effect: the task's status and
\* error_message are unchanged, no error message is sent, and the other
\* invocation's lock stays locked and stays in the lock map.
C38_LockTimeoutSkips ==
  [][\A c \in Coros :
       (/\ co[c].pc = "h_acq" /\ ~(c = "w" /\ cancelReq)
        /\ locked[co[c].lk] /\ OtherHolders(S, c, co[c].lk) # {}
        /\ co'[c] # co[c])
         => LET o == co[c].obj
                l == co[c].lk
            IN /\ status'[o] = status[o]
               /\ error_message'[o] = error_message[o]
               /\ hist'.fs.sent[o] = hist.fs.sent[o]
               /\ locked'[l]
               /\ locks[tid[o]] = l => locks'[tid[o]] = l]_vars

\* C39 (mutual exclusion per task): no invocation acquires a task's lock while
\* another invocation for the same task_id is between its acquire and its
\* release, and no invocation releases, or removes from the lock map, a lock
\* that another invocation holds.
C39_MutualExclusion == ~hist.fs.both /\ ~hist.fs.stolen /\ ~hist.fs.dropped

\* C40 (restart right after stop): a start_job(id, callback, interval) that
\* arrives after stop_job(id), while the cancelled loop of the id has not
\* unwound yet, leaves the id with a running job: a task that is not done and
\* has no cancellation pending, registered with the new callback.
C40_RestartAfterStop ==
  [][\A id \in JobIds, t \in JTasks :
       (/\ jobs[id] = t /\ jt[t].pc \in {"cb", "sleep"} /\ jt[t].cancel
        /\ ~jt[t].again /\ jt'[t].again)
         => \E u \in JTasks : /\ jobs'[id] = u
                              /\ jt'[u].pc \in {"new", "cb", "sleep"}
                              /\ ~jt'[u].cancel
                              /\ callbacks'[id] = jt'[u].cb
                              /\ callbacks'[id] # callbacks[id]]_vars

\* C18 (completed_at): completed_at is set if and only if the status is terminal.
C18_CompletedAtIffTerminal ==
  \A o \in Objs : status[o] # "NONE" => (completed_at[o] <=> status[o] \in Terminal)

\* C19 (output files): the list of output files is empty while the status is
\* WAITING, DOWNLOADING or EXTRACTING.
C19_NoOutputBeforeUploading ==
  \A o \in Objs : status[o] \in {"WAITING", "DOWNLOADING", "EXTRACTING"} => ~output_files[o]

\* C20 (no subtitles): a task is UPLOADING or COMPLETED only if its extraction
\* returned a track; a task whose extraction returned [] has no output files,
\* is never UPLOADING or COMPLETED, and unless a cancel touched it, it is in
\* ERROR with the no-subtitles message.
C20_NoSubtitles ==
  /\ \A o \in Objs : status[o] \in {"UPLOADING", "COMPLETED"}
                       => output_files[o] /\ o \notin hist.empty
  /\ \A o \in hist.empty :
       /\ ~output_files[o]
       /\ status[o] \in {"ERROR", "CANCELED"}
       /\ hist.cancel[o] = "-"
            => status[o] = "ERROR" /\ error_message[o] = user_msg(NoSubtitlesFound)

\* a URL task whose extraction returned [] ended in ERROR and was removed
C20_Witness ==
  \E o \in hist.empty : /\ src[o] = "url" /\ status[o] = "ERROR"
                        /\ error_message[o] = user_msg(NoSubtitlesFound)
                        /\ o \in hist.final /\ o \notin get_all_tasks

====
